---- MODULE Spec2Model ----
(***************************************************************************)
(* A model of the genetic-algorithm engine of src/src/genetic_algorithm.py *)
(* (class GA), with its operators src/src/crossover.py and                 *)
(* src/src/mutation.py and its configuration src/src/config.py.            *)
(*                                                                         *)
(* One run of one entry point (run_ga, run_ga_parallel or                  *)
(* run_ga_parallel_with_stats) is a state machine whose program counter pc *)
(* walks baseline -> init -> evaluating -> (record) selecting -> breeding  *)
(* -> evaluating ... -> done.  An exception that leaves the entry point    *)
(* ends the run in pc = "failed" (raised by the oracle) or pc = "crashed"  *)
(* (raised by the engine's own code); error names it.                      *)
(*                                                                         *)
(* Real numbers (rates, sigma, random draws) are exact rationals <<n, d>>  *)
(* with d > 0.  Sequences are 1-based: Python's population[i] is           *)
(* population[i + 1] here.                                                 *)
(***************************************************************************)
EXTENDS Integers, Sequences, FiniteSets, TLC

VARIABLES
    c,                \* the Config class attributes the engine reads
    entry,            \* the entry point that is running
    oracle,           \* the kind of Simulator the run talks to
    base_gene,        \* the seed genome handed to the entry point
    pc,               \* position of the coordinator in the entry point
    error,            \* the exception that ended the run, "" when none
    baseline_fitness,
    population,
    attempts,         \* create_initial_population's attempt counter
    generation,
    pending,          \* evaluation tasks (1-based indices) not yet returned
    results,          \* slot -> cost: the list the evaluation is building
    returned,         \* task index -> [gene, cost, rank]: what the oracle was asked,
                      \* what it answered, and the task's rank in completion order
    fitnesses,
    best_genes,
    best_fitness,
    history,          \* history['generations']
    selected_indices, \* 0-based indices, as the code holds them
    children,
    rates_passed,     \* the mutation_rate arguments passed while breeding this generation
    simulations,      \* the calls of Simulator.simulate made so far
    call              \* a call of one operator on its own: its function, arguments,
                      \* random draws, position and result

vars == <<c, entry, oracle, base_gene, pc, error, baseline_fitness, population,
          attempts, generation, pending, results, returned, fitnesses,
          best_genes, best_fitness, history, selected_indices, children,
          rates_passed, simulations, call>>

(***************************************************************************)
(* Bounds of the model.                                                    *)
(***************************************************************************)
MaxGenerations == 2
MaxCost == 1

(***************************************************************************)
(* Arithmetic helpers.                                                     *)
(***************************************************************************)
Min2(a, b) == IF a <= b THEN a ELSE b
Max2(a, b) == IF a >= b THEN a ELSE b

\* Python's int() of the rational n / d (d > 0): truncation toward zero.
PyInt(n, d) == IF n >= 0 THEN n \div d ELSE -((-n) \div d)

RatLess(a, b) == a[1] * b[2] < b[1] * a[2]
RatEq(a, b) == a[1] * b[2] = b[1] * a[2]
RatMul(a, b) == <<a[1] * b[1], a[2] * b[2]>>
RatMax(a, b) == IF RatLess(a, b) THEN b ELSE a

RECURSIVE RatPow(_, _)
RatPow(a, n) == IF n = 0 THEN <<1, 1>> ELSE RatMul(a, RatPow(a, n - 1))

RECURSIVE SeqSum(_)
SeqSum(s) == IF s = <<>> THEN 0 ELSE Head(s) + SeqSum(Tail(s))

SeqMin(s) == CHOOSE m \in {s[k] : k \in DOMAIN s} : \A k \in DOMAIN s : m <= s[k]

\* list.index(x): the first (1-based here) position holding x.
IndexOf(s, x) == CHOOSE k \in DOMAIN s : s[k] = x /\ \A j \in 1..(k - 1) : s[j] # x

\* Python slices s[:p] and s[p:] for 0 <= p.
Prefix(s, p) == SubSeq(s, 1, Min2(p, Len(s)))
Suffix(s, p) == SubSeq(s, p + 1, Len(s))

(***************************************************************************)
(* Configuration values that are the same in every run of the model        *)
(* (src/src/config.py) and the literals of src/src/mutation.py.            *)
(***************************************************************************)
MUTATION_RATE == <<1, 2>>
MUTATION_SIGMA == <<4, 1>>
MUTATION_DECAY == <<99, 100>>
MIN_MUTATION_RATE == <<1, 5>>
INIT_VARIATION_MIN == <<1, 2>>
INIT_VARIATION_MAX == <<3, 2>>
DEFAULT_SIGMA == <<5, 1>>
TOURNAMENT_SIZE == 3
MIN_GREEN == 10
MAX_GREEN == 60
MUT_LOW == 10
MUT_HIGH == 30
Inf == 1000000

Entries == {"run_ga", "run_ga_parallel", "run_ga_parallel_with_stats"}
WithStats == "run_ga_parallel_with_stats"

(***************************************************************************)
(* The oracle: Simulator().simulate(gene)['average_time_loss'].  The       *)
(* simulation is external; a run either talks to the deterministic stub    *)
(* cost = sum(genome) or to an oracle that may answer any cost in          *)
(* 0..MaxCost on any call (0 is what simulate answers when no vehicle      *)
(* arrived).  Either oracle may also raise.                                *)
(***************************************************************************)
OracleCosts(gene) == IF oracle = "sum" THEN {SeqSum(gene)} ELSE 0..MaxCost

(***************************************************************************)
(* Random draws.  Each set holds the values a draw may take in the model.  *)
(***************************************************************************)
\* random.uniform(INIT_VARIATION_MIN, INIT_VARIATION_MAX)
InitVariations == {INIT_VARIATION_MIN, INIT_VARIATION_MAX}

\* One element's draws in a mutation: u = random.random() and, when the
\* element is mutated, z = random.gauss(0, sigma) / sigma.
MutDraws ==
    { [u |-> <<1, 10>>, z |-> <<-5, 1>>],
      [u |-> <<497, 1000>>, z |-> <<5, 1>>],
      [u |-> <<9, 10>>, z |-> <<0, 1>>] }

(***************************************************************************)
(* Crossover.single_point with its cut point (crossover.py).               *)
(***************************************************************************)
\* random.randint(1, len(parent1) - 1): empty when len(parent1) < 2.
CutPoints(parent1) == 1..(Len(parent1) - 1)

\* A single-point crossover that crosses the first child only.
OneChildCrossed(parent1, parent2, point) ==
    << Prefix(parent1, point) \o Suffix(parent2, point), parent2 >>

SinglePoint(parent1, parent2, point) ==
    << Prefix(parent1, point) \o Suffix(parent2, point),
       Prefix(parent2, point) \o Suffix(parent1, point) >>

(***************************************************************************)
(* Mutation.gaussian_mutate with its draws (mutation.py).                  *)
(***************************************************************************)
\* max(10, min(30, int(value + random.gauss(0, sigma))))
GaussValue(value, sigma, z) ==
    Max2(MUT_LOW, Min2(MUT_HIGH,
        PyInt(value * z[2] * sigma[2] + z[1] * sigma[1], z[2] * sigma[2])))

GaussianMutate(gene, mutation_rate, sigma, d) ==
    [k \in 1..Len(gene) |->
        IF RatLess(d[k].u, mutation_rate)
        THEN GaussValue(gene[k], sigma, d[k].z)
        ELSE gene[k]]

(***************************************************************************)
(* What each entry point passes to gaussian_mutate.                        *)
(***************************************************************************)
\* curr_mutation_rate of run_ga_parallel_with_stats.
DecayedRate(g) ==
    RatMax(MIN_MUTATION_RATE, RatMul(MUTATION_RATE, RatPow(MUTATION_DECAY, g)))

MutationRateOf(e, g) == IF e = WithStats THEN DecayedRate(g) ELSE MUTATION_RATE

SigmaOf(e) == IF e = WithStats THEN MUTATION_SIGMA ELSE DEFAULT_SIGMA

\* "child = Mutation.gaussian_mutate(child, ...)" of entry point e in
\* generation g, with the draws d of the call.
MutatedChild(e, g, child, d) ==
    GaussianMutate(child, MutationRateOf(e, g), SigmaOf(e), d)

\* One iteration of the breeding loop of entry point e in generation g.
BreedPair(e, g, parent1, parent2, point, d1, d2) ==
    LET cs == SinglePoint(parent1, parent2, point)
    IN  << MutatedChild(e, g, cs[1], d1), MutatedChild(e, g, cs[2], d2) >>

(***************************************************************************)
(* GA.tournament_selection.                                                *)
(***************************************************************************)
\* random.sample(range(n), k): k distinct indices in any order; raises
\* ValueError when k > n.
Samples(n, k) ==
    {s \in [1..k -> 0..(n - 1)] : \A a, b \in 1..k : a # b => s[a] # s[b]}

\* A tournament whose ties go to the smallest index, not to the index
\* sampled first.
LowestIndexWinner(fs, tournament_indices) ==
    CHOOSE w \in {tournament_indices[j] : j \in DOMAIN tournament_indices} :
        \A j \in DOMAIN tournament_indices :
            \/ fs[w + 1] < fs[tournament_indices[j] + 1]
            \/ (fs[w + 1] = fs[tournament_indices[j] + 1] /\ w <= tournament_indices[j])

TournamentWinner(fs, tournament_indices) ==
    LET tournament_fitness ==
            [j \in 1..Len(tournament_indices) |-> fs[tournament_indices[j] + 1]]
    IN  tournament_indices[IndexOf(tournament_fitness, SeqMin(tournament_fitness))]

\* The indices one tournament can select.
Winners(fs, k) == {TournamentWinner(fs, s) : s \in Samples(Len(fs), k)}

(***************************************************************************)
(* Evaluation of a population.  run_ga appends each cost to fitnesses in   *)
(* index order; the parallel entry points hand one task per genome to      *)
(* joblib's Parallel, whose workers return in any order and whose result   *)
(* list is in task order.                                                  *)
(***************************************************************************)
\* A result list filled in the order the workers complete.
PlaceByArrival(res, i, cost) == ((Cardinality(DOMAIN res) + 1) :> cost) @@ res

\* The cost of task i goes to slot i of the result list.
Place(res, i, cost) == (i :> cost) @@ res

\* A coordinator that goes on while one task is still out.
AllButOneReturned(waiting) == Cardinality(waiting) <= 1

\* The coordinator goes on once every task has returned.
AllReturned(waiting) == waiting = {}

\* The result list: the costs placed so far, in slot order.
ResultList(res) ==
    LET slot(k) == CHOOSE s \in DOMAIN res :
                      Cardinality({t \in DOMAIN res : t < s}) = k - 1
    IN  [k \in 1..Cardinality(DOMAIN res) |-> res[slot(k)]]

\* The index of the generation's worst genome in place of its best.
GenWorstIdx(fs) ==
    (CHOOSE k \in DOMAIN fs : \A j \in DOMAIN fs : fs[j] <= fs[k]) - 1

\* fitnesses.index(min(fitnesses)), 0-based as in the code.
GenBestIdx(fs) == IndexOf(fs, SeqMin(fs)) - 1

(***************************************************************************)
(* The configurations, seeds and oracles a run may start from.             *)
(***************************************************************************)
\* class Config; SELECT_COUNT = POPULATION as config.py sets it.
Cfg(pop, gens, tsize, lo, hi, tries) ==
    [ POPULATION |-> pop, GENERATIONS |-> gens, TOURNAMENT_SIZE |-> tsize,
      SELECT_COUNT |-> pop, NUM_SIGNALS |-> 2, MIN_GREEN |-> lo,
      MAX_GREEN |-> hi, MAX_INIT_ATTEMPTS |-> tries ]

Seeds == { <<20, 20>> }

\* The runs of the model: a configuration, an entry point and an oracle.
\* Populations are 2 (even, with tournaments of 2) and 3 (odd, with the
\* configured tournaments of 3); the three-genome runs last one generation
\* and use the deterministic oracle; the oracle that answers anything is
\* run through run_ga and run_ga_parallel_with_stats.
Run(cfg, e, o) == [cfg |-> cfg, entry |-> e, oracle |-> o]

EvenRuns ==
    { Run(Cfg(2, gens, 2, MIN_GREEN, MAX_GREEN, 2), e, "sum") :
        gens \in 1..MaxGenerations, e \in Entries }

AnyOracleRuns ==
    { Run(Cfg(2, gens, 2, MIN_GREEN, MAX_GREEN, 2), e, "any") :
        gens \in 1..MaxGenerations, e \in {"run_ga", WithStats} }

OddRuns ==
    { Run(Cfg(3, 1, TOURNAMENT_SIZE, MIN_GREEN, MAX_GREEN, 2), e, "sum") :
        e \in Entries }

Runs == EvenRuns \cup AnyOracleRuns \cup OddRuns

\* No operator is called on its own in a run of an entry point.
NoCall == [ fn |-> "", args |-> <<>>, draws |-> <<>>, state |-> "",
            result |-> <<>>, error |-> "" ]

InitWith(runs, seeds) ==
    /\ \E r \in runs :
          /\ c = r.cfg
          /\ entry = r.entry
          /\ oracle = r.oracle
    /\ base_gene \in seeds
    /\ pc = "baseline"
    /\ error = ""
    /\ baseline_fitness = 0
    /\ population = <<>>
    /\ attempts = 0
    /\ generation = 0
    /\ pending = {}
    /\ results = <<>>
    /\ returned = <<>>
    /\ fitnesses = <<>>
    /\ best_genes = <<>>
    /\ best_fitness = Inf
    /\ history = <<>>
    /\ selected_indices = <<>>
    /\ children = <<>>
    /\ rates_passed = {}
    /\ simulations = 0
    /\ call = NoCall

Init == InitWith(Runs, Seeds)

(***************************************************************************)
(* The run stops with an exception.                                        *)
(***************************************************************************)
\* An exception that is swallowed: the coordinator goes on to selection.
Swallow(kind, exc) ==
    /\ pc' = "selecting"
    /\ error' = exc

\* No entry point catches anything: the exception leaves it.
Raise(kind, exc) ==
    /\ pc' = kind
    /\ error' = exc

\* A loop that runs one generation more than GENERATIONS.
LoopOnceMore(g, pop) ==
    IF g <= c.GENERATIONS
    THEN /\ pc' = "evaluating"
         /\ pending' = 1..Len(pop)
         /\ results' = <<>>
         /\ returned' = <<>>
    ELSE /\ pc' = "done"
         /\ UNCHANGED <<pending, results, returned>>

\* The head of "for generation in range(c.GENERATIONS)" for generation g.
LoopHead(g, pop) ==
    IF g < c.GENERATIONS
    THEN /\ pc' = "evaluating"
         /\ pending' = 1..Len(pop)
         /\ results' = <<>>
         /\ returned' = <<>>
    ELSE /\ pc' = "done"
         /\ UNCHANGED <<pending, results, returned>>

(***************************************************************************)
(* Baseline evaluation of the seed and the start of                        *)
(* create_initial_population.                                              *)
(***************************************************************************)
\* A factory that starts the population with a genome of MAX_GREEN
\* elements in place of the seed.
BaselineSeedless ==
    /\ pc = "baseline"
    /\ \E cost \in OracleCosts(base_gene) :
          /\ baseline_fitness' = cost
          /\ population' = << [k \in 1..Len(base_gene) |-> c.MAX_GREEN] >>
          /\ attempts' = 0
          /\ pc' = "init"
    /\ simulations' = simulations + 1
    /\ UNCHANGED <<call, c, entry, oracle, base_gene, error, generation, pending,
                   results, returned, fitnesses, best_genes, best_fitness,
                   history, selected_indices, children, rates_passed>>

\* A factory that clamps the seed to the bounds before keeping it.
BaselineClamped ==
    /\ pc = "baseline"
    /\ \E cost \in OracleCosts(base_gene) :
          /\ baseline_fitness' = cost
          /\ population' = << [k \in 1..Len(base_gene) |->
                                 Max2(c.MIN_GREEN, Min2(c.MAX_GREEN, base_gene[k]))] >>
          /\ attempts' = 0
          /\ pc' = "init"
    /\ simulations' = simulations + 1
    /\ UNCHANGED <<call, c, entry, oracle, base_gene, error, generation, pending,
                   results, returned, fitnesses, best_genes, best_fitness,
                   history, selected_indices, children, rates_passed>>

Baseline ==
    /\ pc = "baseline"
    /\ \E cost \in OracleCosts(base_gene) :
          /\ baseline_fitness' = cost
          /\ population' = <<base_gene>>
          /\ attempts' = 0
          /\ pc' = "init"
    /\ simulations' = simulations + 1
    /\ UNCHANGED <<call, c, entry, oracle, base_gene, error, generation, pending,
                   results, returned, fitnesses, best_genes, best_fitness,
                   history, selected_indices, children, rates_passed>>

BaselineFail ==
    /\ pc = "baseline"
    /\ Raise("failed", "OracleEvaluationFailure")
    /\ simulations' = simulations + 1
    /\ UNCHANGED <<call, c, entry, oracle, base_gene, baseline_fitness, population,
                   attempts, generation, pending, results, returned, fitnesses,
                   best_genes, best_fitness, history, selected_indices,
                   children, rates_passed>>

\* A factory that remembers none of the genomes it accepted.
GeneratedNothing == {}

\* generated: the tuples of the genomes accepted so far, the seed included.
Generated == {population[k] : k \in DOMAIN population}

\* max(c.MIN_GREEN, min(c.MAX_GREEN, int(base_duration * variation)))
InitDuration(base_duration, variation) ==
    Max2(c.MIN_GREEN, Min2(c.MAX_GREEN,
        PyInt(base_duration * variation[1], variation[2])))

\* One iteration of the perturbation loop.
InitAttempt ==
    /\ pc = "init"
    /\ Len(population) < c.POPULATION
    /\ attempts < c.MAX_INIT_ATTEMPTS
    /\ \E v \in [1..Len(base_gene) -> InitVariations] :
          LET gene == [k \in 1..Len(base_gene) |-> InitDuration(base_gene[k], v[k])]
          IN  population' = IF gene \notin Generated
                            THEN Append(population, gene)
                            ELSE population
    /\ attempts' = attempts + 1
    /\ UNCHANGED <<call, simulations, c, entry, oracle, base_gene, pc, error, baseline_fitness,
                   generation, pending, results, returned, fitnesses,
                   best_genes, best_fitness, history, selected_indices,
                   children, rates_passed>>

\* A factory without the random-fill fallback: it returns what the
\* perturbation loop built.
ReturnShort ==
    /\ pc = "init"
    /\ Len(population) < c.POPULATION
    /\ attempts >= c.MAX_INIT_ATTEMPTS
    /\ pc' = "evaluating"
    /\ UNCHANGED <<call, simulations, c, entry, oracle, base_gene, error, baseline_fitness,
                   population, attempts, generation, pending, results,
                   returned, fitnesses, best_genes, best_fitness, history,
                   selected_indices, children, rates_passed>>

\* One iteration of the random-fill loop: random.randint(MIN_GREEN, MAX_GREEN)
\* for each of NUM_SIGNALS positions.
InitFill ==
    /\ pc = "init"
    /\ Len(population) < c.POPULATION
    /\ attempts >= c.MAX_INIT_ATTEMPTS
    /\ \E gene \in [1..c.NUM_SIGNALS -> {c.MIN_GREEN, c.MAX_GREEN}] :
          population' = Append(population, gene)
    /\ UNCHANGED <<call, simulations, c, entry, oracle, base_gene, pc, error, baseline_fitness,
                   attempts, generation, pending, results, returned, fitnesses,
                   best_genes, best_fitness, history, selected_indices,
                   children, rates_passed>>

\* create_initial_population returns and the generation loop starts.
InitReturn ==
    /\ pc = "init"
    /\ Len(population) >= c.POPULATION
    /\ generation' = 0
    /\ best_genes' = <<>>
    /\ best_fitness' = Inf
    /\ LoopHead(0, population)
    /\ UNCHANGED <<call, simulations, c, entry, oracle, base_gene, error, baseline_fitness,
                   population, attempts, fitnesses, history, selected_indices,
                   children, rates_passed>>

(***************************************************************************)
(* EVALUATION.                                                             *)
(***************************************************************************)
\* The tasks that may return next: run_ga evaluates in index order, the
\* workers of a parallel evaluation complete in any order.
MayReturn == IF entry = "run_ga"
             THEN {i \in pending : \A j \in pending : i <= j}
             ELSE pending

\* The oracle answers task i.
EvalReturn ==
    /\ pc = "evaluating"
    /\ \E i \in MayReturn :
          \E cost \in OracleCosts(population[i]) :
             /\ results' = Place(results, i, cost)
             /\ returned' = (i :> [gene |-> population[i], cost |-> cost,
                                    rank |-> Cardinality(DOMAIN returned) + 1])
                             @@ returned
             /\ pending' = pending \ {i}
    /\ simulations' = simulations + 1
    /\ UNCHANGED <<call, c, entry, oracle, base_gene, pc, error, baseline_fitness,
                   population, attempts, generation, fitnesses, best_genes,
                   best_fitness, history, selected_indices, children,
                   rates_passed>>

\* The oracle raises in some task; the exception leaves the entry point.
EvalFail ==
    /\ pc = "evaluating"
    /\ MayReturn # {}
    /\ Raise("failed", "OracleEvaluationFailure")
    /\ simulations' = simulations + 1
    /\ UNCHANGED <<call, c, entry, oracle, base_gene, baseline_fitness, population,
                   attempts, generation, pending, results, returned, fitnesses,
                   best_genes, best_fitness, history, selected_indices,
                   children, rates_passed>>

(***************************************************************************)
(* Recording: the fitness vector is complete; generation best, overall     *)
(* best and the generation's history record.                               *)
(***************************************************************************)
\* run_ga_parallel keeps no history.
KeepsHistory(e) == e # "run_ga_parallel"

\* A diversity that compares the genomes by their first element only.
DiversityByFirst(pop) ==
    << Cardinality({pop[k][1] : k \in DOMAIN pop}), Len(pop) >>

\* unique_genes / len(population), as the rational <<unique_genes, len>>.
Diversity(pop) == << Cardinality({pop[k] : k \in DOMAIN pop}), Len(pop) >>

\* The generation's record: run_ga_parallel_with_stats records a diversity,
\* run_ga does not.
GenRecord(g, pop, fs) ==
    IF entry = WithStats
    THEN [ generation |-> g, evaluated |-> Len(fs), diversity |-> Diversity(pop) ]
    ELSE [ generation |-> g, evaluated |-> Len(fs) ]

\* An overall best that is also replaced when the generation's best ties it.
ImprovesOrTies(gen_best_fitness, best) == gen_best_fitness <= best

\* An overall best that is overwritten by every generation's best.
AlwaysReplaces(gen_best_fitness, best) == TRUE

\* "if gen_best_fitness < best_fitness"
Improves(gen_best_fitness, best) == gen_best_fitness < best

\* "for i in range(len(population[0])): gene_values = [ind[i] for ind in
\* population]" of run_ga_parallel_with_stats raises IndexError when a
\* genome is shorter than the first.
GeneStatsFail(e, pop) ==
    e = WithStats /\ \E k \in DOMAIN pop : Len(pop[k]) < Len(pop[1])

Record ==
    /\ pc = "evaluating"
    /\ AllReturned(pending)
    /\ LET fs == ResultList(results)
           gen_best_idx == GenBestIdx(fs)
       IN  /\ fitnesses' = fs
           /\ IF Improves(fs[gen_best_idx + 1], best_fitness)
              THEN /\ best_genes' = population[gen_best_idx + 1]
                   /\ best_fitness' = fs[gen_best_idx + 1]
              ELSE UNCHANGED <<best_genes, best_fitness>>
           /\ IF GeneStatsFail(entry, population)
              THEN /\ Raise("crashed", "IndexError")
                   /\ UNCHANGED history
              ELSE /\ history' = IF KeepsHistory(entry)
                                 THEN Append(history, GenRecord(generation, population, fs))
                                 ELSE history
                   /\ pc' = "selecting"
                   /\ UNCHANGED error
    /\ UNCHANGED <<call, simulations, c, entry, oracle, base_gene, baseline_fitness,
                   population, attempts, generation, pending, results,
                   returned, selected_indices, children, rates_passed>>

(***************************************************************************)
(* SELECTION: tournament_selection(fitnesses).                             *)
(***************************************************************************)
Select ==
    /\ pc = "selecting"
    /\ IF c.SELECT_COUNT >= 1 /\ c.TOURNAMENT_SIZE > Len(fitnesses)
       THEN \* random.sample: sample larger than population
            /\ Raise("crashed", "ValueError")
            /\ UNCHANGED <<selected_indices, children, rates_passed>>
       ELSE /\ \E sel \in [1..c.SELECT_COUNT -> Winners(fitnesses, c.TOURNAMENT_SIZE)] :
                  selected_indices' = sel
            /\ children' = <<>>
            /\ rates_passed' = {}
            /\ pc' = "breeding"
            /\ UNCHANGED error
    /\ UNCHANGED <<call, simulations, c, entry, oracle, base_gene, baseline_fitness, population,
                   attempts, generation, pending, results, returned, fitnesses,
                   best_genes, best_fitness, history>>

(***************************************************************************)
(* CROSSOVER & MUTATION: one iteration of                                  *)
(* "for i in range(0, c.POPULATION - 1, 2)"; i = len(children).            *)
(***************************************************************************)
\* A pairing that slides along the selection by one: (s0, s1), (s1, s2), ...
SlidingPair(i) == << i \div 2 + 1, i \div 2 + 2 >>

\* The positions of "selected_indices[i]" and "selected_indices[i + 1]",
\* 1-based, in the iteration that finds i children.
PairAt(i) == << i + 1, i + 2 >>

Breed ==
    /\ pc = "breeding"
    /\ Len(children) < c.POPULATION - 1
    /\ LET i == Len(children)
       IN  IF i + 1 >= Len(selected_indices)
           THEN \* selected_indices[i] or selected_indices[i + 1]
                /\ Raise("crashed", "IndexError")
                /\ UNCHANGED <<children, rates_passed>>
           ELSE LET parent1 == population[selected_indices[PairAt(i)[1]] + 1]
                    parent2 == population[selected_indices[PairAt(i)[2]] + 1]
                IN  IF CutPoints(parent1) = {}
                    THEN \* random.randint(1, 0)
                         /\ Raise("crashed", "ValueError")
                         /\ UNCHANGED <<children, rates_passed>>
                    ELSE /\ \E point \in CutPoints(parent1) :
                            LET cs == SinglePoint(parent1, parent2, point)
                                child1 ==
                                    { MutatedChild(entry, generation, cs[1], d) :
                                        d \in [1..Len(cs[1]) -> MutDraws] }
                                child2 ==
                                    { MutatedChild(entry, generation, cs[2], d) :
                                        d \in [1..Len(cs[2]) -> MutDraws] }
                            IN  \E m1 \in child1, m2 \in child2 :
                                   children' = children \o << m1, m2 >>
                         /\ rates_passed' = rates_passed \cup
                                {MutationRateOf(entry, generation)}
                         /\ UNCHANGED <<pc, error>>
    /\ UNCHANGED <<call, simulations, c, entry, oracle, base_gene, baseline_fitness, population,
                   attempts, generation, pending, results, returned, fitnesses,
                   best_genes, best_fitness, history, selected_indices>>

(***************************************************************************)
(* Odd-size carry-over, ELITISM, shuffle, NEXT GENERATION and LOGGING.     *)
(***************************************************************************)
\* A carry-over of the first selected parent instead of the last.
CarryFirstSelected(kids, pop, sel) ==
    IF c.POPULATION % 2 = 1
    THEN Append(kids, pop[sel[1] + 1])
    ELSE kids

\* A breeding step that forgets the unpaired parent of an odd population.
WithoutCarryOver(kids, pop, sel) == kids

\* "if c.POPULATION % 2 == 1: children.append(population[selected_indices[-1]])"
WithCarryOver(kids, pop, sel) ==
    IF c.POPULATION % 2 = 1
    THEN Append(kids, pop[sel[Len(sel)] + 1])
    ELSE kids

\* A breeding step without elitism.
WithoutElite(kids, elite) == kids

\* "children[0] = gen_best_genes.copy()"
WithElite(kids, elite) == [kids EXCEPT ![1] = elite]

\* random.shuffle(children): the orders a shuffle may leave.
Shuffles(kids) ==
    { [k \in 1..Len(kids) |-> kids[p[k]]] : p \in Permutations(1..Len(kids)) }

Commit ==
    /\ pc = "breeding"
    /\ Len(children) >= c.POPULATION - 1
    /\ IF c.POPULATION % 2 = 1 /\ selected_indices = <<>>
       THEN \* selected_indices[-1]
            /\ Raise("crashed", "IndexError")
            /\ UNCHANGED <<population, generation, pending, results, returned>>
       ELSE LET kids == WithCarryOver(children, population, selected_indices)
                elite == population[GenBestIdx(fitnesses) + 1]
            IN  IF kids = <<>>
                THEN \* children[0] = ...
                     /\ Raise("crashed", "IndexError")
                     /\ UNCHANGED <<population, generation, pending, results,
                                    returned>>
                ELSE /\ population' \in Shuffles(WithElite(kids, elite))
                     /\ IF baseline_fitness = 0
                        THEN \* improvement = (...) / baseline_fitness
                             /\ Raise("crashed", "ZeroDivisionError")
                             /\ UNCHANGED <<generation, pending, results,
                                            returned>>
                        ELSE /\ generation' = generation + 1
                             /\ LoopHead(generation + 1, population')
                             /\ UNCHANGED error
    /\ UNCHANGED <<call, simulations, c, entry, oracle, base_gene, baseline_fitness, attempts,
                   fitnesses, best_genes, best_fitness, history,
                   selected_indices, children, rates_passed>>

Next ==
    \/ Baseline
    \/ BaselineFail
    \/ InitAttempt
    \/ InitFill
    \/ InitReturn
    \/ EvalReturn
    \/ EvalFail
    \/ Record
    \/ Select
    \/ Breed
    \/ Commit

Spec == Init /\ [][Next]_vars

(***************************************************************************)
(* Runs under other configured bounds: every pair holds the seed, and the  *)
(* first is the pair of config.py.                                         *)
(***************************************************************************)
ConfiguredBounds == { <<MIN_GREEN, MAX_GREEN>>, <<10, 30>>, <<15, 25>> }

BoundsRuns ==
    { Run(Cfg(2, gens, 2, b[1], b[2], 2), e, "sum") :
        gens \in 1..MaxGenerations, e \in Entries, b \in ConfiguredBounds }
    \cup { Run(Cfg(3, 1, TOURNAMENT_SIZE, b[1], b[2], 2), e, "sum") :
        e \in Entries, b \in ConfiguredBounds }

SpecBounds == InitWith(BoundsRuns, Seeds) /\ [][Next]_vars

(***************************************************************************)
(* Runs of every population size from 1 on: a population of one genome     *)
(* holds tournaments of 1.                                                 *)
(***************************************************************************)
SingleRuns ==
    { Run(Cfg(1, gens, 1, MIN_GREEN, MAX_GREEN, 2), e, "sum") :
        gens \in 1..MaxGenerations, e \in Entries }

SizeRuns == SingleRuns \cup EvenRuns \cup OddRuns

SpecSizes == InitWith(SizeRuns, Seeds) /\ [][Next]_vars

(***************************************************************************)
(* Properties.                                                             *)
(***************************************************************************)
Range(s) == {s[k] : k \in DOMAIN s}
Parallel == entry # "run_ga"
Bred == pc \in {"evaluating", "selecting", "breeding", "done"}

\* C1: in every configuration MIN_GREEN <= MAX_GREEN that holds the seed,
\* every element of every genome of every population lies in
\* [MIN_GREEN, MAX_GREEN].
C1_AllInBounds ==
    \A i \in DOMAIN population : \A k \in DOMAIN population[i] :
        c.MIN_GREEN <= population[i][k] /\ population[i][k] <= c.MAX_GREEN

\* C2: the overall best fitness never increases, whatever the oracle
\* answers: each step leaves it at most what it was.
C2_BestNonIncreasing == [][best_fitness' <= best_fitness]_vars

\* A generation g >= 1 has been recorded whose own best is worse than the
\* overall best, which is kept.
C2_Witness ==
    /\ pc = "selecting"
    /\ generation >= 1
    /\ oracle = "any"
    /\ SeqMin(fitnesses) > best_fitness

\* C3: the population that enters evaluation and the population committed
\* after breeding, carry-over and elitism hold exactly POPULATION genomes.
C3_PopulationSize == Bred => Len(population) = c.POPULATION

\* A population of odd size, above 1, has been bred with its carry-over
\* and committed.
C3_Witness ==
    /\ pc = "done"
    /\ generation = 1
    /\ c.POPULATION % 2 = 1
    /\ Len(children) = 2
    /\ Len(population) = 3

\* C4: the genome at the first index attaining the minimum of the
\* generation's fitness vector is, unchanged, a member of the population
\* the breeding commits, wherever the shuffle puts it.
C4_ElitePreserved ==
    [][pc = "breeding" =>
        population[GenBestIdx(fitnesses) + 1] \in Range(population')]_vars

\* The first generation's best genome (the overall best so far) is in the
\* committed population, and the shuffle moved it away from slot 0.
C4_Witness ==
    /\ pc = "evaluating"
    /\ generation = 1
    /\ population[1] # best_genes
    /\ best_genes \in Range(population)

\* C5: in each entry point, every mutation rate passed while breeding
\* generation g is max(MIN_MUTATION_RATE, MUTATION_RATE * MUTATION_DECAY^g).
C5_DecayedRate ==
    pc = "breeding" =>
        \A r \in rates_passed : RatEq(r, DecayedRate(generation))

\* C6: the fitness vector a parallel evaluation hands to recording has one
\* entry per genome, and entry i is what the oracle answered for
\* population[i], in whatever order the workers completed.
C6_ResultOrder ==
    (Parallel /\ pc = "selecting") =>
        /\ Len(fitnesses) = Len(population)
        /\ \A i \in DOMAIN population :
              /\ i \in DOMAIN returned
              /\ returned[i].gene = population[i]
              /\ fitnesses[i] = returned[i].cost

\* The second task completed before the first, with another cost, and the
\* vector has been handed over.
C6_Witness ==
    /\ Parallel
    /\ pc = "selecting"
    /\ Len(population) >= 2
    /\ returned[2].rank < returned[1].rank
    /\ fitnesses[1] # fitnesses[2]

\* The draws of one breeding iteration on the parents the state selects.
PairDraws(parent1, parent2) ==
    { [point |-> pt, d1 |-> a, d2 |-> b] :
        pt \in CutPoints(parent1),
        a \in [1..Len(parent2) -> MutDraws],
        b \in [1..Len(parent1) -> MutDraws] }

\* C7: with the same seed, configuration, draws and a deterministic oracle
\* the three entry points go through the same populations: from the
\* population and selection they share, the same draws breed the same
\* children in each of them.
C7_EnginesAgree ==
    (pc = "breeding" /\ oracle = "sum" /\ Len(children) + 1 < Len(selected_indices)
        /\ Len(children) < c.POPULATION - 1) =>
        LET parent1 == population[selected_indices[Len(children) + 1] + 1]
            parent2 == population[selected_indices[Len(children) + 2] + 1]
        IN  \A w \in PairDraws(parent1, parent2) : \A e \in Entries :
               BreedPair(e, generation, parent1, parent2, w.point, w.d1, w.d2)
                 = BreedPair("run_ga", generation, parent1, parent2, w.point,
                             w.d1, w.d2)

\* C8: generations do not overlap: selection and breeding of a generation
\* run only once all POPULATION evaluations of it have returned, and
\* evaluations happen only in the evaluating phase, on the genomes of the
\* population the previous breeding committed.
C8_NoOverlap ==
    /\ pc \in {"selecting", "breeding"} =>
          pending = {} /\ DOMAIN returned = 1..c.POPULATION
    /\ pending # {} => pc \in {"evaluating", "failed"}
    /\ pc = "evaluating" =>
          /\ Len(population) = c.POPULATION
          /\ \A i \in DOMAIN returned : returned[i].gene = population[i]

\* Workers of a generation after the first are returning, out of order,
\* after the breeding of the generation before committed its population.
C8_Witness ==
    /\ Parallel
    /\ pc = "evaluating"
    /\ generation >= 1
    /\ 1 \in pending
    /\ 2 \in DOMAIN returned

\* C9: when the oracle answers every call, whatever costs >= 0 it answers,
\* a run of GENERATIONS >= 1 is not ended by an exception, and it ends
\* with GENERATIONS history records, numbered 0..GENERATIONS-1 in order.
C9_CompletesWithHistory ==
    /\ pc # "crashed"
    /\ (pc = "done" /\ KeepsHistory(entry)) =>
          /\ Len(history) = c.GENERATIONS
          /\ \A k \in DOMAIN history : history[k].generation = k - 1

\* C10: an oracle failure ends the run at once: the run is in its failed
\* state, the failing generation has no history record, and the records
\* of the generations before it are complete and in order.
C10_AbortOnFailure ==
    error = "OracleEvaluationFailure" =>
        /\ pc = "failed"
        /\ KeepsHistory(entry) => Len(history) = generation
        /\ \A k \in DOMAIN history :
              /\ history[k].generation = k - 1
              /\ history[k].evaluated = c.POPULATION

\* The oracle failed in generation 1 after one of its genomes had been
\* evaluated; the history holds generation 0 only.
C10_Witness ==
    /\ pc = "failed"
    /\ generation = 1
    /\ pending # {}
    /\ returned # <<>>
    /\ Len(history) = 1

(***************************************************************************)
(* What the caller of the entry point receives.                            *)
(***************************************************************************)
\* run_ga and run_ga_parallel_with_stats return (best_genes, best_fitness,
\* baseline_fitness, history), run_ga_parallel returns the first three; an
\* exception leaves the entry point as it was raised, and the locals of
\* the entry point (generation, history) go with its frame.
Outcome ==
    IF pc = "done"
    THEN IF KeepsHistory(entry)
         THEN [ kind |-> "return", best_genes |-> best_genes,
                best_fitness |-> best_fitness,
                baseline_fitness |-> baseline_fitness, history |-> history ]
         ELSE [ kind |-> "return", best_genes |-> best_genes,
                best_fitness |-> best_fitness,
                baseline_fitness |-> baseline_fitness ]
    ELSE IF pc \in {"failed", "crashed"}
         THEN [ kind |-> "raise", exception |-> error ]
         ELSE [ kind |-> "running" ]

\* C11: when an evaluation fails in generation g, what the caller receives
\* includes the generation index g and the history of generations 0..g-1.
C11_FailureReport ==
    (pc = "failed" /\ population # <<>>) =>
        /\ "generation" \in DOMAIN Outcome
        /\ "history" \in DOMAIN Outcome
        /\ Outcome.generation = generation
        /\ Outcome.history = history

(***************************************************************************)
(* Runs of a degenerate configuration, POPULATION <= 0, next to the runs   *)
(* of populations 2 and 3.  No tournament is held when SELECT_COUNT <= 0.  *)
(***************************************************************************)
DegeneratePopulations == {0, -1}

DegenerateRuns ==
    { Run(Cfg(p, 1, TOURNAMENT_SIZE, MIN_GREEN, MAX_GREEN, 2), e, "sum") :
        p \in DegeneratePopulations, e \in Entries }

SpecDegenerate ==
    InitWith(DegenerateRuns \cup EvenRuns \cup OddRuns, Seeds) /\ [][Next]_vars

\* C12: a configuration with POPULATION <= 0 is rejected with a
\* configuration error before the run starts: the oracle is never asked
\* (not for the baseline either) and no population is built.
C12_RejectsEmptyPopulation ==
    c.POPULATION <= 0 =>
        /\ pc \in {"baseline", "crashed"}
        /\ pc = "crashed" => error = "EmptyPopulation"
        /\ population = <<>>
        /\ returned = <<>>

(***************************************************************************)
(* Operators called on their own, outside a run: the caller passes the     *)
(* arguments call.args, the operator makes its draws call.draws and        *)
(* either returns call.result or raises call.error.                        *)
(***************************************************************************)
engine_vars ==
    <<c, entry, oracle, base_gene, pc, error, baseline_fitness, population,
      attempts, generation, pending, results, returned, fitnesses,
      best_genes, best_fitness, history, selected_indices, children,
      rates_passed, simulations>>

Called(fn, args) ==
    [ fn |-> fn, args |-> args, draws |-> <<>>, state |-> "called",
      result |-> <<>>, error |-> "" ]

Returns(draws, result) ==
    call' = [call EXCEPT !.state = "returned", !.draws = draws, !.result = result]

Raises(exc) ==
    call' = [call EXCEPT !.state = "raised", !.error = exc]

\* The state around an operator call: no run is in progress.
InitCalls(calls, cfgs) ==
    /\ call \in calls
    /\ c \in cfgs
    /\ entry = ""
    /\ oracle = "sum"
    /\ base_gene = <<>>
    /\ pc = "operator"
    /\ error = ""
    /\ baseline_fitness = 0
    /\ population = <<>>
    /\ attempts = 0
    /\ generation = 0
    /\ pending = {}
    /\ results = <<>>
    /\ returned = <<>>
    /\ fitnesses = <<>>
    /\ best_genes = <<>>
    /\ best_fitness = Inf
    /\ history = <<>>
    /\ selected_indices = <<>>
    /\ children = <<>>
    /\ rates_passed = {}
    /\ simulations = 0

\* Genomes of 1..n elements.
GeneValues == {10, 20}
Genomes(n) == UNION { [1..len -> GeneValues] : len \in 1..n }

(***************************************************************************)
(* Crossover.two_point and Crossover.uniform (crossover.py).               *)
(***************************************************************************)
\* Python slice s[a:b] for 0 <= a <= b.
Slice(s, a, b) == SubSeq(s, Min2(a, Len(s)) + 1, Min2(b, Len(s)))

\* point1 = random.randint(1, len(parent1) - 2) and
\* point2 = random.randint(point1 + 1, len(parent1) - 1): empty when
\* len(parent1) < 3.
TwoCutPoints(parent1) ==
    { pts \in (1..(Len(parent1) - 2)) \X (2..(Len(parent1) - 1)) :
        pts[1] + 1 <= pts[2] }

TwoPoint(parent1, parent2, point1, point2) ==
    << Prefix(parent1, point1) \o Slice(parent2, point1, point2)
           \o Suffix(parent1, point2),
       Prefix(parent2, point1) \o Slice(parent1, point1, point2)
           \o Suffix(parent2, point2) >>

\* "if random.random() < 0.5"
UNIFORM_SWAP == <<1, 2>>
UniformDraws == { <<1, 4>>, <<1, 2>> }

\* zip(parent1, parent2) stops at the end of the shorter parent.
Zipped(parent1, parent2) == 1..Min2(Len(parent1), Len(parent2))

\* A uniform crossover whose second child copies the first.
UniformCopied(parent1, parent2, r) ==
    << [k \in Zipped(parent1, parent2) |->
           IF RatLess(r[k], UNIFORM_SWAP) THEN parent1[k] ELSE parent2[k]],
       [k \in Zipped(parent1, parent2) |->
           IF RatLess(r[k], UNIFORM_SWAP) THEN parent1[k] ELSE parent2[k]] >>

Uniform(parent1, parent2, r) ==
    << [k \in Zipped(parent1, parent2) |->
           IF RatLess(r[k], UNIFORM_SWAP) THEN parent1[k] ELSE parent2[k]],
       [k \in Zipped(parent1, parent2) |->
           IF RatLess(r[k], UNIFORM_SWAP) THEN parent2[k] ELSE parent1[k]] >>

(***************************************************************************)
(* Calls of the three crossover strategies on any two parents.             *)
(***************************************************************************)
MaxLen == 3

CrossoverFns == {"single_point", "two_point", "uniform"}

CallSinglePoint ==
    /\ call.fn = "single_point"
    /\ call.state = "called"
    /\ LET parent1 == call.args[1]
           parent2 == call.args[2]
       IN  IF CutPoints(parent1) = {}
           THEN Raises("ValueError")
           ELSE \E point \in CutPoints(parent1) :
                   Returns(<<point>>, SinglePoint(parent1, parent2, point))
    /\ UNCHANGED engine_vars

CallTwoPoint ==
    /\ call.fn = "two_point"
    /\ call.state = "called"
    /\ LET parent1 == call.args[1]
           parent2 == call.args[2]
       IN  IF TwoCutPoints(parent1) = {}
           THEN Raises("ValueError")
           ELSE \E pts \in TwoCutPoints(parent1) :
                   Returns(pts, TwoPoint(parent1, parent2, pts[1], pts[2]))
    /\ UNCHANGED engine_vars

CallUniform ==
    /\ call.fn = "uniform"
    /\ call.state = "called"
    /\ LET parent1 == call.args[1]
           parent2 == call.args[2]
       IN  \E r \in [Zipped(parent1, parent2) -> UniformDraws] :
              Returns(r, Uniform(parent1, parent2, r))
    /\ UNCHANGED engine_vars

\* single_point called again, on the children the call returned, and
\* drawing the same cut point: the second pair of children is appended to
\* call.result.
Recross ==
    /\ call.fn = "single_point"
    /\ call.state = "returned"
    /\ call.draws[1] \in CutPoints(call.result[1])
    /\ call' = [call EXCEPT
                  !.state = "recrossed",
                  !.result = @ \o SinglePoint(call.result[1], call.result[2],
                                              call.draws[1])]
    /\ UNCHANGED engine_vars

CrossoverCalls ==
    { Called(fn, <<parent1, parent2>>) :
        fn \in CrossoverFns, parent1 \in Genomes(MaxLen), parent2 \in Genomes(MaxLen) }

InitCrossover ==
    InitCalls(CrossoverCalls, {Cfg(2, 1, 2, MIN_GREEN, MAX_GREEN, 2)})

NextCrossover == CallSinglePoint \/ CallTwoPoint \/ CallUniform \/ Recross

SpecCrossover == InitCrossover /\ [][NextCrossover]_vars

\* C13: each crossover strategy, called with two parents of different
\* lengths, fails with a ShapeMismatch error and returns no children.
C13_ShapeMismatch ==
    (/\ call.fn \in CrossoverFns
     /\ call.state # "called"
     /\ Len(call.args[1]) # Len(call.args[2])) =>
        /\ call.state = "raised"
        /\ call.error = "ShapeMismatch"
        /\ call.result = <<>>

(***************************************************************************)
(* create_initial_population on its own: the run from its start to the     *)
(* return of create_initial_population, for populations from 1 on, attempt *)
(* budgets from 0 on and seeds of any length, inside the bounds or not.    *)
(***************************************************************************)
MaxPop == 3
MaxAttempts == 2

FactorySeeds == { <<>>, <<20>>, <<20, 20>>, <<10, 10>>, <<5, 70>> }

FactoryRuns ==
    { Run(Cfg(pop, 1, 1, MIN_GREEN, MAX_GREEN, tries), WithStats, "sum") :
        pop \in 1..MaxPop, tries \in 0..MaxAttempts }

InitFactory == InitWith(FactoryRuns, FactorySeeds)

NextFactory == Baseline \/ InitAttempt \/ InitFill \/ InitReturn

SpecFactory == InitFactory /\ [][NextFactory]_vars

\* The loops of create_initial_population go on while they can.
SpecFactoryLive == SpecFactory /\ WF_vars(NextFactory)

\* create_initial_population has returned.
FactoryReturned == pc \notin {"baseline", "init"}

\* C14: for every seed, every POPULATION >= 1 and every
\* MAX_INIT_ATTEMPTS >= 0, create_initial_population returns, without an
\* error, and what it returns holds exactly POPULATION genomes.
C14_FactoryReturnsSize ==
    /\ [](FactoryReturned => (error = "" /\ Len(population) = c.POPULATION))
    /\ <>FactoryReturned

\* The attempt budget ran out with too few distinct candidates, the
\* random fill completed the population, and the population was returned.
C14_Witness ==
    /\ FactoryReturned
    /\ attempts = c.MAX_INIT_ATTEMPTS
    /\ attempts >= 2
    /\ Len(population) = 3
    /\ Len(population[2]) = Len(base_gene)
    /\ Len(population[3]) = c.NUM_SIGNALS
    /\ Len(base_gene) < c.NUM_SIGNALS

\* C15: the first member of the population create_initial_population
\* builds and returns is the seed genome, element for element as it was
\* passed: not perturbed, not clamped.
C15_SeedFirst ==
    pc # "baseline" => (population # <<>> /\ population[1] = base_gene)

\* A population of three was returned for a seed whose elements lie
\* outside [MIN_GREEN, MAX_GREEN]; the members after it are in the bounds.
C15_Witness ==
    /\ FactoryReturned
    /\ Len(population) = 3
    /\ base_gene = <<5, 70>>
    /\ population[1] = <<5, 70>>
    /\ population[2][1] >= c.MIN_GREEN
    /\ population[2][2] <= c.MAX_GREEN

Distinct(s) == \A a, b \in DOMAIN s : a # b => s[a] # s[b]

\* C16: whenever the perturbation loop has made an attempt, the population
\* (the seed and the genomes the loop accepted) is pairwise distinct as
\* whole tuples; a step that brings a duplicate into the population is a
\* step of the random fill, after the attempt budget ran out.
C16_PerturbationDistinct ==
    [][/\ attempts' # attempts => Distinct(population')
       /\ (Distinct(population) /\ ~Distinct(population')) =>
             (attempts' = attempts /\ attempts >= c.MAX_INIT_ATTEMPTS)]_vars

\* The first candidate repeated the seed and was rejected, the second was
\* accepted, and the population was returned without any random fill.
C16_Witness ==
    /\ FactoryReturned
    /\ c.POPULATION = 2
    /\ attempts = 2
    /\ base_gene = <<10, 10>>
    /\ Len(population) = 2
    /\ population[2][1] = 15

(***************************************************************************)
(* Calls of GA.tournament_selection on any fitness vector, with any        *)
(* SELECT_COUNT >= 0 and any TOURNAMENT_SIZE from 1 to the configured one. *)
(* call.result is selected_indices; call.draws is tournament_indices, the  *)
(* sample of the tournament held last.                                     *)
(***************************************************************************)
MaxVec == 3
MaxSelect == 2

FitnessVectors == UNION { [1..n -> 0..MaxCost] : n \in 0..MaxVec }

SelectionCalls == { Called("tournament_selection", <<fs>>) : fs \in FitnessVectors }

SelectionCfgs ==
    { Cfg(count, 1, tsize, MIN_GREEN, MAX_GREEN, 2) :
        count \in 0..MaxSelect, tsize \in 1..TOURNAMENT_SIZE }

\* A selection that holds one tournament less than asked.
OneTournamentLess(held) == held < c.SELECT_COUNT - 1

\* "for _ in range(c.SELECT_COUNT)"
MoreTournaments(held) == held < c.SELECT_COUNT

\* One iteration of the loop: one tournament.
CallTournament ==
    /\ call.fn = "tournament_selection"
    /\ call.state = "called"
    /\ MoreTournaments(Len(call.result))
    /\ LET fs == call.args[1]
       IN  IF c.TOURNAMENT_SIZE > Len(fs)
           THEN \* random.sample: sample larger than population
                Raises("ValueError")
           ELSE \E tournament_indices \in Samples(Len(fs), c.TOURNAMENT_SIZE) :
                   call' = [call EXCEPT
                              !.draws = tournament_indices,
                              !.result = Append(@, TournamentWinner(fs, tournament_indices))]
    /\ UNCHANGED engine_vars

CallSelectionReturn ==
    /\ call.fn = "tournament_selection"
    /\ call.state = "called"
    /\ ~MoreTournaments(Len(call.result))
    /\ call' = [call EXCEPT !.state = "returned"]
    /\ UNCHANGED engine_vars

InitSelection == InitCalls(SelectionCalls, SelectionCfgs)

NextSelection == CallTournament \/ CallSelectionReturn

SpecSelection == InitSelection /\ [][NextSelection]_vars

\* C17: for a fitness vector of at least TOURNAMENT_SIZE entries,
\* tournament_selection does not raise and returns exactly SELECT_COUNT
\* indices, each i with 0 <= i < len(fitnesses); no step of it changes the
\* vector it was passed.
C17_SelectionValid ==
    /\ [](Len(call.args[1]) >= c.TOURNAMENT_SIZE =>
            /\ call.state # "raised"
            /\ call.state = "returned" =>
                  /\ Len(call.result) = c.SELECT_COUNT
                  /\ \A k \in DOMAIN call.result :
                        0 <= call.result[k] /\ call.result[k] < Len(call.args[1]))
    /\ [][call.args' = call.args]_vars

\* Two tournaments of the configured size over a vector of exactly that
\* many entries selected two indices, and the selection returned.
C17_Witness ==
    /\ call.state = "returned"
    /\ c.TOURNAMENT_SIZE = TOURNAMENT_SIZE
    /\ Len(call.args[1]) = TOURNAMENT_SIZE
    /\ Len(call.result) = 2
    /\ call.result[1] # call.result[2]

\* A tournament has been held in the call; its sample is call.draws and
\* its winner the index appended last.
TournamentHeld ==
    /\ call.fn = "tournament_selection"
    /\ call.state # "raised"
    /\ call.result # <<>>

\* C18: in each tournament the TOURNAMENT_SIZE sampled indices are
\* pairwise distinct; the winner is a sampled index of minimum fitness
\* among the sample, and no index sampled before it has that fitness; an
\* index whose fitness is strictly lower than every other's wins every
\* tournament whose sample contains it.
C18_TournamentWinner ==
    TournamentHeld =>
        LET fs == call.args[1]
            sample == call.draws
            winner == call.result[Len(call.result)]
        IN  /\ Len(sample) = c.TOURNAMENT_SIZE
            /\ Distinct(sample)
            /\ \E j \in DOMAIN sample :
                  /\ sample[j] = winner
                  /\ \A k \in DOMAIN sample : fs[winner + 1] <= fs[sample[k] + 1]
                  /\ \A k \in 1..(j - 1) : fs[sample[k] + 1] > fs[winner + 1]
            /\ \A i \in 0..(Len(fs) - 1) :
                  (/\ \A o \in 0..(Len(fs) - 1) : o # i => fs[i + 1] < fs[o + 1]
                   /\ i \in Range(sample)) => winner = i

\* Two sampled indices tie at the minimum; the one sampled earlier wins,
\* although the other is the smaller index.
C18_Witness ==
    /\ TournamentHeld
    /\ call.args[1] = <<1, 0, 0>>
    /\ call.draws = <<0, 2, 1>>
    /\ call.result[Len(call.result)] = 2

\* C19: single-point crossover is its own inverse under a fixed cut
\* point: for parents of equal length >= 2 and every cut point, crossing
\* the children again at the same cut point returns the parents.
C19_SinglePointInverse ==
    (/\ call.fn = "single_point"
     /\ Len(call.args[1]) = Len(call.args[2])
     /\ Len(call.args[1]) >= 2) =>
        /\ call.state # "raised"
        /\ call.state = "returned" => ENABLED Recross
        /\ call.state = "recrossed" =>
              << call.result[3], call.result[4] >> = call.args

\* Parents that differ on both sides of the cut were crossed into
\* children that are neither parent, and crossed back.
C19_Witness ==
    /\ call.fn = "single_point"
    /\ call.state = "recrossed"
    /\ Len(call.args[1]) = 3
    /\ Len(call.args[2]) = 3
    /\ call.draws = <<2>>
    /\ call.result[1] \notin Range(call.args)
    /\ call.result[2] \notin Range(call.args)
    /\ call.result[3] = call.args[1]

\* The shortest parents a strategy crosses: single_point draws its cut
\* from randint(1, len - 1), two_point its cuts from randint(1, len - 2)
\* and randint(point1 + 1, len - 1), uniform draws no position.
ShortestCrossed(fn) ==
    IF fn = "single_point" THEN 2 ELSE IF fn = "two_point" THEN 3 ELSE 0

\* Both children of the call have the parents' length and hold, at every
\* position, the parents' two elements of that position, one each; the
\* single-point children are the prefixes and suffixes at the cut drawn.
ChildrenOfParents ==
    LET p1 == call.args[1]
        p2 == call.args[2]
        child1 == call.result[1]
        child2 == call.result[2]
        k == call.draws[1]
    IN  /\ Len(child1) = Len(p1)
        /\ Len(child2) = Len(p1)
        /\ \A i \in DOMAIN p1 :
              \/ (child1[i] = p1[i] /\ child2[i] = p2[i])
              \/ (child1[i] = p2[i] /\ child2[i] = p1[i])
        /\ call.fn = "single_point" =>
              /\ k \in 1..(Len(p1) - 1)
              /\ child1 = [i \in DOMAIN p1 |-> IF i <= k THEN p1[i] ELSE p2[i]]
              /\ child2 = [i \in DOMAIN p1 |-> IF i <= k THEN p2[i] ELSE p1[i]]

\* C20, as stated: for each crossover strategy and all parents of equal
\* length, the call returns two children of the parents' length that hold
\* at every position the parents' two elements of that position, one
\* each, the single-point children being p1[0..k) + p2[k..) and
\* p2[0..k) + p1[k..).
C20_AllEqualLengths ==
    (/\ call.fn \in CrossoverFns
     /\ Len(call.args[1]) = Len(call.args[2])) =>
        /\ call.state # "raised"
        /\ call.state = "returned" => ChildrenOfParents

\* C20, amended: for parents of equal length, of at least 2 elements for
\* single-point and at least 3 for two-point crossover (any length for
\* uniform), the call does not raise, both children have the parents'
\* length and at every position the children hold the parents' two
\* elements of that position, one each; a single-point crossover with cut
\* k gives child1 = p1[0..k) + p2[k..) and child2 = p2[0..k) + p1[k..);
\* for shorter parents single-point and two-point crossover return
\* nothing and raise ValueError; no step changes the parents.
C20_ChildrenFromParents ==
    /\ [](/\ call.fn \in CrossoverFns
          /\ Len(call.args[1]) = Len(call.args[2])
          => IF Len(call.args[1]) >= ShortestCrossed(call.fn)
             THEN /\ call.state # "raised"
                  /\ call.state = "returned" => ChildrenOfParents
             ELSE /\ call.state \in {"called", "raised"}
                  /\ call.state = "raised" => call.error = "ValueError")
    /\ [][call.args' = call.args]_vars

\* A two-point crossover with cuts 1 and 2 exchanged the middle element of
\* two parents of three elements that differ at every position.
C20_Witness ==
    /\ call.fn = "two_point"
    /\ call.state = "returned"
    /\ call.args = << <<10, 10, 10>>, <<20, 20, 20>> >>
    /\ call.draws = <<1, 2>>
    /\ call.result = << <<10, 20, 10>>, <<20, 10, 20>> >>

(***************************************************************************)
(* Mutation.random_reset_mutate and Mutation.creep_mutate (mutation.py),   *)
(* and calls of the three mutation strategies on their own, under each of  *)
(* the configured bounds.  call.args is <<gene, mutation_rate, sigma>>;    *)
(* call.draws holds one record per element: u = random.random() and the    *)
(* draw that is used when the element is selected.                         *)
(***************************************************************************)
\* "random.randint(10, 30)" of random_reset_mutate.
ResetValue(v) == v

RandomResetMutate(gene, mutation_rate, d) ==
    [k \in 1..Len(gene) |->
        IF RatLess(d[k].u, mutation_rate) THEN ResetValue(d[k].v) ELSE gene[k]]

\* "max(10, min(30, value + change))" of creep_mutate.
CreepValue(value, change) == Max2(MUT_LOW, Min2(MUT_HIGH, value + change))

\* A creep mutation that steps every element, selected or not.
CreepEvery(gene, mutation_rate, d) ==
    [k \in 1..Len(gene) |-> CreepValue(gene[k], d[k].change)]

CreepMutate(gene, mutation_rate, d) ==
    [k \in 1..Len(gene) |->
        IF RatLess(d[k].u, mutation_rate)
        THEN CreepValue(gene[k], d[k].change)
        ELSE gene[k]]

MaxMutLen == 2

MutationFns == {"gaussian_mutate", "random_reset_mutate", "creep_mutate"}

MutationValues == {15, 20, 25}
MutationGenes == UNION { [1..len -> MutationValues] : len \in 1..MaxMutLen }
MutationRates == { <<0, 1>>, MUTATION_RATE, <<1, 1>> }

\* random.random() and random.gauss(0, sigma) / sigma.
GaussDraws == MutDraws \cup { [u |-> <<1, 10>>, z |-> <<-1, 2>>] }

\* random.random() and random.randint(10, 30).
ResetDraws ==
    { [u |-> u, v |-> v] : u \in { <<1, 10>>, <<9, 10>> },
                           v \in {MUT_LOW, 20, MUT_HIGH} }

\* random.random() and random.randint(-5, 5).
CreepDraws ==
    { [u |-> u, change |-> s] : u \in { <<1, 10>>, <<9, 10>> },
                                s \in {-5, 0, 5} }

CallGaussian ==
    /\ call.fn = "gaussian_mutate"
    /\ call.state = "called"
    /\ LET gene == call.args[1]
       IN  \E d \in [1..Len(gene) -> GaussDraws] :
              Returns(d, GaussianMutate(gene, call.args[2], call.args[3], d))
    /\ UNCHANGED engine_vars

CallRandomReset ==
    /\ call.fn = "random_reset_mutate"
    /\ call.state = "called"
    /\ LET gene == call.args[1]
       IN  \E d \in [1..Len(gene) -> ResetDraws] :
              Returns(d, RandomResetMutate(gene, call.args[2], d))
    /\ UNCHANGED engine_vars

CallCreep ==
    /\ call.fn = "creep_mutate"
    /\ call.state = "called"
    /\ LET gene == call.args[1]
       IN  \E d \in [1..Len(gene) -> CreepDraws] :
              Returns(d, CreepMutate(gene, call.args[2], d))
    /\ UNCHANGED engine_vars

MutationCalls ==
    { Called(fn, <<gene, rate, DEFAULT_SIGMA>>) :
        fn \in MutationFns, gene \in MutationGenes, rate \in MutationRates }

MutationCfgs == { Cfg(2, 1, 2, b[1], b[2], 2) : b \in ConfiguredBounds }

InitMutation == InitCalls(MutationCalls, MutationCfgs)

NextMutation == CallGaussian \/ CallRandomReset \/ CallCreep

SpecMutation == InitMutation /\ [][NextMutation]_vars

\* The elements of the call's genome that the draws select for mutation.
SelectedElements ==
    { k \in DOMAIN call.draws : RatLess(call.draws[k].u, call.args[2]) }

Clamp(v) == Max2(c.MIN_GREEN, Min2(c.MAX_GREEN, v))

\* C21: under every configured MIN_GREEN <= MAX_GREEN, each selected
\* element becomes: with gaussian, the element plus the integer
\* perturbation drawn, clamped to [MIN_GREEN, MAX_GREEN]; with creep, the
\* element plus the step drawn, clamped to [MIN_GREEN, MAX_GREEN]; with
\* random-reset, an integer of [MIN_GREEN, MAX_GREEN].
C21_MutationByBounds ==
    (call.fn \in MutationFns /\ call.state = "returned") =>
        \A k \in SelectedElements :
            LET value == call.args[1][k]
                dr == call.draws[k]
                sigma == call.args[3]
            IN  /\ call.fn = "gaussian_mutate" =>
                      call.result[k] =
                          Clamp(PyInt(value * dr.z[2] * sigma[2] + dr.z[1] * sigma[1],
                                      dr.z[2] * sigma[2]))
                /\ call.fn = "creep_mutate" =>
                      call.result[k] = Clamp(value + dr.change)
                /\ call.fn = "random_reset_mutate" =>
                      (c.MIN_GREEN <= call.result[k] /\ call.result[k] <= c.MAX_GREEN)

\* C22: each mutation strategy returns a genome of the length of its
\* input in which every element the draws do not select is the input's
\* element of that position; with rate 0 it returns a genome equal to its
\* input; no step changes the input genome.
C22_MutationFrame ==
    /\ [](call.fn \in MutationFns /\ call.state = "returned" =>
            LET gene == call.args[1]
            IN  /\ Len(call.result) = Len(gene)
                /\ \A k \in DOMAIN gene :
                      k \notin SelectedElements => call.result[k] = gene[k]
                /\ RatEq(call.args[2], <<0, 1>>) => call.result = gene)
    /\ [][call.args' = call.args]_vars

\* A creep mutation at rate 1/2 stepped the first element of a genome of
\* two and copied the second, whose draw would have stepped it as well.
C22_Witness ==
    /\ call.fn = "creep_mutate"
    /\ call.state = "returned"
    /\ call.args[1] = <<20, 20>>
    /\ RatEq(call.args[2], MUTATION_RATE)
    /\ SelectedElements = {1}
    /\ call.draws[2].change = 5
    /\ call.result = <<25, 20>>

\* The step that records a generation, and the step that starts the
\* generation loop with no overall best yet.
Recording == pc = "evaluating" /\ pc' = "selecting"
StartingLoop == pc = "init" /\ pc' # "init"

\* C23: the loop starts with no overall best; recording a generation
\* makes the overall best fitness the minimum of what it was and of the
\* generation's fitness vector, and the overall best genome the genome at
\* the first index of the generation's minimum when that is a strict
\* improvement and what it was otherwise; no other step (selection,
\* breeding, mutation, shuffling, committing) changes either.  So after
\* recording generation g they are the minimum over generations 0..g and
\* the genome that attained it first.
C23_OverallBest ==
    [][IF Recording
       THEN LET m == SeqMin(fitnesses')
            IN  /\ best_fitness' = Min2(best_fitness, m)
                /\ best_genes' = IF m < best_fitness
                                 THEN population[IndexOf(fitnesses', m)]
                                 ELSE best_genes
       ELSE IF StartingLoop
            THEN best_fitness' = Inf
            ELSE best_fitness' = best_fitness /\ best_genes' = best_genes]_vars

\* A later generation's best ties the overall best with another genome;
\* the genome that attained it first is kept.
C23_Witness ==
    /\ pc = "selecting"
    /\ generation >= 1
    /\ SeqMin(fitnesses) = best_fitness
    /\ population[GenBestIdx(fitnesses) + 1] # best_genes

\* The record of the generation whose population the state still holds.
Recorded == entry = WithStats /\ pc \in {"selecting", "breeding"}

\* C24: the diversity recorded for a generation is the number of distinct
\* genomes, compared as whole tuples, of that generation's population
\* divided by the population size: 1 when all genomes are distinct and
\* 1 / POPULATION when all are identical.
C24_Diversity ==
    Recorded =>
        LET diversity == history[Len(history)].diversity
        IN  /\ diversity[2] = c.POPULATION
            /\ diversity[1] =
                 Cardinality({i \in DOMAIN population :
                                \A j \in 1..(i - 1) : population[j] # population[i]})
            /\ Distinct(population) => RatEq(diversity, <<1, 1>>)
            /\ (\A i \in DOMAIN population : population[i] = population[1]) =>
                  RatEq(diversity, <<1, c.POPULATION>>)

\* The random fill repeated a genome of a population of three: two
\* distinct genomes among three, and the diversity recorded is 2/3.
C24_Witness ==
    /\ Recorded
    /\ c.POPULATION = 3
    /\ population[2] = population[3]
    /\ population[1] # population[2]
    /\ history[Len(history)].diversity = <<2, 3>>

\* A step of the breeding loop, and the step that commits the children.
(***************************************************************************)
(* Runs that breed two pairs: a population of 4 whose members other than   *)
(* the seed [20,20] are the random fill of the bounds 30..30, so that the  *)
(* selection mixes two genomes; next to them the runs of the populations   *)
(* of 1, 2 and 3, the odd ones with a carry-over.                          *)
(***************************************************************************)
PairRuns == { Run(Cfg(4, 1, TOURNAMENT_SIZE, 30, 30, 0), "run_ga", "sum") }

SpecPairs == InitWith(SizeRuns \cup PairRuns, Seeds) /\ [][Next]_vars

BreedStep == pc = "breeding" /\ Len(children') = Len(children) + 2
CommitStep == pc = "breeding" /\ pc' # "breeding"

\* child is bred mutated on its own: gaussian_mutate(bred, rate, sigma) of
\* the entry point, under some draw for each element.
MutatedAlone(child, bred) ==
    /\ Len(child) = Len(bred)
    /\ \A k \in DOMAIN bred :
          \E d \in MutDraws :
             child[k] = GaussianMutate(<< bred[k] >>,
                                       MutationRateOf(entry, generation),
                                       SigmaOf(entry), << d >>)[1]

\* C25: the breeding step that finds i children takes its parents from
\* the selected positions i and i + 1, in selection order, and appends
\* two children: the two single-point children of some cut point, each
\* mutated with draws of its own; when POPULATION is odd, the genome of
\* the last selected index is, unchanged, a member of the population the
\* breeding commits.
C25_PairsAndCarryOver ==
    [][/\ BreedStep =>
             LET i == Len(children)
                 p1 == population[selected_indices[i + 1] + 1]
                 p2 == population[selected_indices[i + 2] + 1]
             IN  /\ SubSeq(children', 1, i) = children
                 /\ \E point \in 1..(Len(p1) - 1) :
                       /\ MutatedAlone(children'[i + 1],
                                       Prefix(p1, point) \o Suffix(p2, point))
                       /\ MutatedAlone(children'[i + 2],
                                       Prefix(p2, point) \o Suffix(p1, point))
       /\ (CommitStep /\ c.POPULATION % 2 = 1) =>
             population[selected_indices[Len(selected_indices)] + 1]
                 \in Range(population')]_vars

\* A population of 4 has bred its second pair: the second and third
\* selected parents are the same genome, the fourth is another, and the
\* third child is their unmutated single-point child, which is neither.
C25_Witness ==
    /\ pc = "breeding"
    /\ c.POPULATION = 4
    /\ Len(children) = 4
    /\ LET s1 == population[selected_indices[2] + 1]
           s2 == population[selected_indices[3] + 1]
           s3 == population[selected_indices[4] + 1]
       IN  /\ s1 = s2
           /\ s2 # s3
           /\ children[3] = Prefix(s2, 1) \o Suffix(s3, 1)
           /\ children[3] \notin {s2, s3}

(***************************************************************************)
(* The end-to-end scenario: seed [15,15,15,15], MIN_GREEN = 10,            *)
(* MAX_GREEN = 30, four signals, the oracle cost = sum(genome), run by     *)
(* run_ga_parallel_with_stats with a population of 2: for the scenario's   *)
(* three generations with tournaments of 2, and for two generations with   *)
(* tournaments of 1, where the parents of a pair may differ.  Next to      *)
(* them, the runs of populations 2 and 3 of the seed [20,20].              *)
(***************************************************************************)
ScenarioSeed == <<15, 15, 15, 15>>
ScenarioGenerations == 3

ScenarioCfg(pop, gens, tsize) ==
    [Cfg(pop, gens, tsize, 10, 30, 2) EXCEPT !.NUM_SIGNALS = Len(ScenarioSeed)]

ScenarioRuns ==
    { Run(ScenarioCfg(2, ScenarioGenerations, 2), WithStats, "sum"),
      Run(ScenarioCfg(2, ScenarioGenerations - 1, 1), WithStats, "sum") }

InitScenario ==
    \/ InitWith(EvenRuns \cup OddRuns, Seeds)
    \/ InitWith(ScenarioRuns, {ScenarioSeed})

SpecScenario == InitScenario /\ [][Next]_vars

InScenario ==
    /\ base_gene = ScenarioSeed
    /\ c.MIN_GREEN = 10
    /\ c.MAX_GREEN = 30

\* C26: a run with the deterministic oracle that returns, returns as
\* baseline_fitness the oracle's cost of the seed and a best_fitness that
\* is at most baseline_fitness; in the scenario baseline_fitness is 60 and
\* best_fitness lies in [40, 60].
C26_BaselineAndBest ==
    (pc = "done" /\ oracle = "sum") =>
        /\ Outcome.kind = "return"
        /\ Outcome.baseline_fitness = SeqSum(base_gene)
        /\ Outcome.best_fitness <= Outcome.baseline_fitness
        /\ InScenario =>
              /\ Outcome.baseline_fitness = 60
              /\ 40 <= Outcome.best_fitness
              /\ Outcome.best_fitness <= 60

\* The scenario's run of three generations returned a genome that was
\* bred: [10,15,15,15], with cost 55, is the seed with its first element
\* alone mutated, a child that a later generation evaluated.
C26_Witness ==
    /\ pc = "done"
    /\ InScenario
    /\ c.GENERATIONS = ScenarioGenerations
    /\ Len(history) = ScenarioGenerations
    /\ Outcome.baseline_fitness = 60
    /\ Outcome.best_fitness = 55
    /\ Outcome.best_genes = <<10, 15, 15, 15>>

(***************************************************************************)
(* Runs whose seed has NUM_SIGNALS elements or another number of them,     *)
(* with an attempt budget of 2 or none.                                    *)
(***************************************************************************)
LengthSeeds == { <<20, 20>>, <<20, 20, 20>> }

LengthRuns ==
    { Run(Cfg(2, 1, 2, MIN_GREEN, MAX_GREEN, tries), e, "sum") :
        tries \in {0, 2}, e \in Entries }

SpecLengths == InitWith(LengthRuns, LengthSeeds) /\ [][Next]_vars

\* C27: for every seed, every genome of the population of every
\* generation has the length of the seed.
C27_LengthConstant ==
    \A i \in DOMAIN population : Len(population[i]) = Len(base_gene)

(***************************************************************************)
(* Runs of populations 2 and 3 under every SELECT_COUNT from 1 to          *)
(* POPULATION; config.py sets SELECT_COUNT = POPULATION.                   *)
(***************************************************************************)
SelectCountRuns ==
    { Run([Cfg(pop, 1, pop, MIN_GREEN, MAX_GREEN, 2) EXCEPT !.SELECT_COUNT = count],
          e, "sum") :
        pop \in {2, TOURNAMENT_SIZE}, count \in 1..TOURNAMENT_SIZE, e \in Entries }

SpecSelectCount ==
    InitWith({r \in SelectCountRuns : r.cfg.SELECT_COUNT <= r.cfg.POPULATION}, Seeds)
        /\ [][Next]_vars

\* C28: in every configuration with POPULATION >= 2 and SELECT_COUNT >= 1,
\* the list selection returned holds POPULATION indices, and every
\* position breeding reads from it (i and i + 1 for i = 0, 2, ... <
\* POPULATION - 1, and the last position for odd sizes) is less than its
\* length.
C28_ParentsForEverySlot ==
    (pc = "breeding" /\ c.POPULATION >= 2 /\ c.SELECT_COUNT >= 1) =>
        /\ Len(selected_indices) = c.POPULATION
        /\ \A i \in 0..(c.POPULATION - 2) :
              i % 2 = 0 => i + 1 < Len(selected_indices)
        /\ c.POPULATION % 2 = 1 => Len(selected_indices) >= 1

\* C29: with a deterministic oracle, the minimum of generation g's fitness
\* vector, g >= 1, is at most the minimum of generation g - 1's: the step
\* that records generation g replaces the vector of generation g - 1 by
\* one whose minimum is no larger.
C29_GenerationBestNonIncreasing ==
    [][(Recording /\ oracle = "sum" /\ generation >= 1) =>
          SeqMin(fitnesses') <= SeqMin(fitnesses)]_vars

\* Generation 1 has been recorded under the deterministic oracle: its
\* best ties the overall best, and it holds a genome that costs more than
\* its elite.
C29_Witness ==
    /\ pc = "selecting"
    /\ oracle = "sum"
    /\ generation = 1
    /\ SeqMin(fitnesses) = best_fitness
    /\ \E k \in DOMAIN fitnesses : fitnesses[k] > best_fitness

\* The run returns: the coordinator leaves the loop after the last
\* generation's breeding.
Finishing == pc = "breeding" /\ pc' = "done"

\* C30: a completed run has called the oracle once for the seed and once
\* for every member of every generation's population, 1 + GENERATIONS *
\* POPULATION calls in all; while a generation is being evaluated the
\* calls made are the baseline's, POPULATION for every earlier generation
\* and one for every member that has returned; the population bred after
\* the last selection is committed without a call, and the overall best
\* is what it was before.
C30_OracleCalls ==
    /\ [](/\ pc = "done" =>
                simulations = 1 + c.GENERATIONS * c.POPULATION
          /\ pc = "evaluating" =>
                simulations = 1 + generation * c.POPULATION
                                + Cardinality(DOMAIN returned)
          /\ pc \in {"selecting", "breeding"} =>
                /\ simulations = 1 + (generation + 1) * c.POPULATION
                /\ DOMAIN returned = 1..c.POPULATION
                /\ \A i \in DOMAIN returned : returned[i].gene = population[i])
    /\ [][Finishing =>
            /\ simulations' = simulations
            /\ returned' = returned
            /\ best_genes' = best_genes
            /\ best_fitness' = best_fitness]_vars

\* A run of two generations of two genomes has returned after five calls
\* of the oracle, and the population it bred last holds a genome that no
\* call of the last generation evaluated.
C30_Witness ==
    /\ pc = "done"
    /\ c.GENERATIONS = 2
    /\ c.POPULATION = 2
    /\ simulations = 5
    /\ \E k \in DOMAIN population :
          \A i \in DOMAIN returned : returned[i].gene # population[k]
====
